---- MODULE Spec2Model ----
(***************************************************************************)
(* A model of libs/geometry.py (Point, Line, Segment, Polygon) and of      *)
(* argsort from libs/list.py.                                              *)
(*                                                                         *)
(* Numbers.  A Python float is modelled as an exact rational [n, d] with   *)
(* d > 0, and a Point as homogeneous integer coordinates [x, y, w] that    *)
(* stand for (x/w, y/w), w > 0.  +, -, * and / are exact.  The two         *)
(* irrational library functions are computed in fixed point:               *)
(*   abs(complex)  -> a multiple of 1/NormScale (integer square root)      *)
(*   cmath.phase   -> a multiple of 1e-8 radian (arctangent table)         *)
(* EPS = 1e-8 is the rational 1/EPS_DEN, and every comparison with EPS is  *)
(* exact.  Floating point rounding (about 1e-16) is not modelled.          *)
(*                                                                         *)
(* State.  The library is a set of pure functions.  op is the last         *)
(* operation invoked ("init" before any call), arg the record of its       *)
(* inputs and ret the value it returned.                                   *)
(***************************************************************************)
EXTENDS Integers, Sequences, FiniteSets

VARIABLES op, arg, ret

vars == <<op, arg, ret>>

\* ------------------------------------------------------------- bounds ---
\* ccw inputs: points of the grid 0..CcwMax x 0..CcwMax
CcwMax == 3
\* intersects_with inputs: segments with end points in 0..IntMax x 0..IntMax
IntMax == 2
\* closest_point, dist and dist_segment inputs: points of 0..DistMax squared
DistMax == 2
\* intersection_point inputs: integer coefficients in -LineMax..LineMax
LineMax == 1
\* gradient and intercept inputs: integer coefficients in -GradMax..GradMax
GradMax == 2
\* is_convex inputs: 1..ConvexVerts vertices in 0..ConvexMax x 0..ConvexMax
ConvexMax == 2
ConvexVerts == 4
\* contains inputs: 1..PolyVerts vertices and p in 0..PolyMaxX x 0..PolyMaxY
PolyMaxX == 2
PolyMaxY == 2
PolyVerts == 4
\* argsort inputs: lists of at most MaxLen elements of 0..ValMax
MaxLen == 3
ValMax == 2
\* resolution of abs(): lengths are multiples of 1/NormScale
NormScale == 100

\* ---------------------------------------------------------- constants ---
\* EPS = 1e-8 = 1 / EPS_DEN
EPS_DEN == 100000000
\* pi/2 and pi in units of 1e-8 radian; TAU = 2 pi
HALF_PI == 157079633
PI == 2 * HALF_PI
TAU == PI * 2

CCW_COUNTER_CLOCKWISE == 1
CCW_CLOCKWISE == -1
CCW_ONLINE_BACK == 2
CCW_ONLINE_FRONT == -2
CCW_ON_SEGMENT == 0

\* the value of ret before any call
NoRet == [kind |-> "noret"]

\* ------------------------------------------------- float arithmetic ---
Abs(i) == IF i < 0 THEN -i ELSE i

Min(i, j) == IF i < j THEN i ELSE j
Max(i, j) == IF i < j THEN j ELSE i

RECURSIVE GCD(_, _)
GCD(i, j) == IF j = 0 THEN i ELSE GCD(j, i % j)

\* the float n/d
R(n, d) == [n |-> n, d |-> d]
\* the float i
RInt(i) == [n |-> i, d |-> 1]
RNeg(r) == [n |-> -r.n, d |-> r.d]
RAbs(r) == [n |-> Abs(r.n), d |-> r.d]

\* n/d in lowest terms
Norm(n, d) == LET g == GCD(Abs(n), d) IN [n |-> n \div g, d |-> d \div g]

\* r + s, over the least common denominator
RAdd(r, s) ==
    IF r.d = s.d THEN Norm(r.n + s.n, r.d)
    ELSE LET g == GCD(r.d, s.d)
         IN Norm(r.n * (s.d \div g) + s.n * (r.d \div g),
                 (r.d \div g) * s.d)

RSub(r, s) == RAdd(r, RNeg(s))

\* r * s, cancelling common factors before multiplying
RMul(r, s) ==
    LET g1 == GCD(Abs(r.n), s.d)
        g2 == GCD(Abs(s.n), r.d)
    IN [n |-> (r.n \div g1) * (s.n \div g2),
        d |-> (r.d \div g2) * (s.d \div g1)]

\* 1 / s for s # 0
RInv(s) == IF s.n < 0 THEN [n |-> -s.d, d |-> -s.n] ELSE [n |-> s.d, d |-> s.n]

\* r / s for s # 0
RDiv(r, s) == RMul(r, RInv(s))

RIsZero(r) == r.n = 0
REq(r, s) == RIsZero(RSub(r, s))

\* r > EPS, r < EPS, r < -EPS, r > -EPS, abs(r) < EPS
GtEps(r) == r.n > r.d \div EPS_DEN
LtEps(r) == r.n <= (r.d - 1) \div EPS_DEN
LtNegEps(r) == GtEps(RNeg(r))
GtNegEps(r) == LtEps(RNeg(r))
AbsLtEps(r) == LtEps(RAbs(r))

\* the largest r in lo..hi with r * r <= n
RECURSIVE IsqrtIn(_, _, _)
IsqrtIn(lo, hi, n) ==
    IF lo = hi THEN lo
    ELSE LET mid == (lo + hi + 1) \div 2
         IN IF mid * mid <= n THEN IsqrtIn(mid, hi, n)
            ELSE IsqrtIn(lo, mid - 1, n)

Isqrt(n) == IsqrtIn(0, 46340, n)

\* abs(n / w) in units of 1/NormScale, rounded up
Tick(n, w) == (Abs(n) * NormScale + w - 1) \div w

\* ------------------------------------------------------------ Point ---
\* Point.from_rect: the floats x and y over a common denominator
from_rect(x, y) ==
    LET g == GCD(x.d, y.d)
    IN [x |-> x.n * (y.d \div g), y |-> y.n * (x.d \div g),
        w |-> (x.d \div g) * y.d]

\* Point.x and Point.y
PX(p) == R(p.x, p.w)
PY(p) == R(p.y, p.w)

\* Point.__add__
Add(p, q) ==
    IF p.w = q.w THEN [x |-> p.x + q.x, y |-> p.y + q.y, w |-> p.w]
    ELSE [x |-> p.x * q.w + q.x * p.w, y |-> p.y * q.w + q.y * p.w,
          w |-> p.w * q.w]

\* Point.__sub__
Sub(p, q) ==
    IF p.w = q.w THEN [x |-> p.x - q.x, y |-> p.y - q.y, w |-> p.w]
    ELSE [x |-> p.x * q.w - q.x * p.w, y |-> p.y * q.w - q.y * p.w,
          w |-> p.w * q.w]

\* Point.dot
dot(p, q) == R(p.x * q.x + p.y * q.y, p.w * q.w)

\* Point.det
det(p, q) == R(p.x * q.y - p.y * q.x, p.w * q.w)

\* Point.norm and Point.__abs__
norm(p) ==
    LET tx == Tick(p.x, p.w)
        ty == Tick(p.y, p.w)
    IN R(Isqrt(tx * tx + ty * ty), NormScale)

\* Point.dist
dist(p, q) == norm(Sub(p, q))

\* Point.__eq__
PEq(p, q) == LtEps(norm(Sub(p, q)))

\* Point.ccw with the ONLINE_BACK test and the ONLINE_FRONT test swapped
ccw_front_first(a, b, c) ==
    LET b1 == Sub(b, a)
        c1 == Sub(c, a)
        d == det(b1, c1)
    IN IF GtEps(d) THEN CCW_COUNTER_CLOCKWISE
       ELSE IF LtNegEps(d) THEN CCW_CLOCKWISE
       ELSE IF GtEps(RSub(norm(c1), norm(b1))) THEN CCW_ONLINE_FRONT
       ELSE IF LtNegEps(dot(b1, c1)) THEN CCW_ONLINE_BACK
       ELSE CCW_ON_SEGMENT

\* Point.ccw comparing the lengths the wrong way round
ccw_norm_swapped(a, b, c) ==
    LET b1 == Sub(b, a)
        c1 == Sub(c, a)
        d == det(b1, c1)
    IN IF GtEps(d) THEN CCW_COUNTER_CLOCKWISE
       ELSE IF LtNegEps(d) THEN CCW_CLOCKWISE
       ELSE IF LtNegEps(dot(b1, c1)) THEN CCW_ONLINE_BACK
       ELSE IF GtEps(RSub(norm(b1), norm(c1))) THEN CCW_ONLINE_FRONT
       ELSE CCW_ON_SEGMENT

\* Point.ccw
ccw(a, b, c) ==
    LET b1 == Sub(b, a)
        c1 == Sub(c, a)
        d == det(b1, c1)
    IN IF GtEps(d) THEN CCW_COUNTER_CLOCKWISE
       ELSE IF LtNegEps(d) THEN CCW_CLOCKWISE
       ELSE IF LtNegEps(dot(b1, c1)) THEN CCW_ONLINE_BACK
       ELSE IF GtEps(RSub(norm(c1), norm(b1))) THEN CCW_ONLINE_FRONT
       ELSE CCW_ON_SEGMENT

\* cmath.phase of the direction (x, y), x >= y >= 0 in lowest terms, in
\* units of EPS radian: atan(y / x)
Atan(x, y) ==
    CASE y = 0 -> 0
      [] x = 1 /\ y = 1 -> 78539816
      [] x = 2 /\ y = 1 -> 46364761
      [] x = 3 /\ y = 1 -> 32175055
      [] x = 3 /\ y = 2 -> 58800260
      [] x = 4 /\ y = 1 -> 24497866
      [] x = 4 /\ y = 3 -> 64350111
      [] x = 5 /\ y = 1 -> 19739556
      [] x = 5 /\ y = 2 -> 38050638
      [] x = 5 /\ y = 3 -> 54041950
      [] x = 5 /\ y = 4 -> 67474094
      [] x = 6 /\ y = 1 -> 16514868
      [] x = 6 /\ y = 5 -> 69473828

\* cmath.phase in the first quadrant: x >= 0, y >= 0, not both 0
PhaseQ1(x, y) ==
    LET g == GCD(x, y)
    IN IF y <= x THEN Atan(x \div g, y \div g)
       ELSE HALF_PI - Atan(y \div g, x \div g)

\* Point.phase, in units of EPS radian, in (-PI, PI]
phase(p) ==
    IF p.x = 0 /\ p.y = 0 THEN 0
    ELSE IF p.y >= 0
         THEN IF p.x >= 0 THEN PhaseQ1(p.x, p.y) ELSE PI - PhaseQ1(-p.x, p.y)
         ELSE IF p.x >= 0 THEN -PhaseQ1(p.x, -p.y)
              ELSE -(PI - PhaseQ1(-p.x, -p.y))

\* Point.angle, in units of EPS radian
angle(self, p, q) ==
    ((phase(Sub(q, self)) - phase(Sub(p, self)) + PI) % TAU) - PI

\* Point.on_segment
on_segment(self, p, q, allow_side) ==
    IF ~allow_side /\ (PEq(self, p) \/ PEq(self, q)) THEN FALSE
    ELSE /\ AbsLtEps(det(Sub(p, self), Sub(q, self)))
         /\ LtEps(dot(Sub(p, self), Sub(q, self)))

\* ------------------------------------------------------------- Line ---
\* the values a method returns besides booleans and integers
None == [kind |-> "none"]
INF == [kind |-> "inf"]
ZeroDivisionError == [kind |-> "ZeroDivisionError"]
Float(r) == [kind |-> "float", n |-> r.n, d |-> r.d]
SomePoint(p) == [kind |-> "point", x |-> p.x, y |-> p.y, w |-> p.w]

\* Line.__init__
Line(a, b, c) == [a |-> a, b |-> b, c |-> c]

\* Line.from_segment
from_segment(p1, p2) ==
    Line(RSub(PY(p2), PY(p1)),
         RSub(PX(p1), PX(p2)),
         RSub(RMul(PY(p2), RSub(PX(p2), PX(p1))),
              RMul(PX(p2), RSub(PY(p2), PY(p1)))))

\* Line.gradient
gradient(l) == IF l.b.n = 0 THEN INF ELSE Float(RDiv(RNeg(l.a), l.b))

\* Line.intercept
intercept(l) == IF l.b.n = 0 THEN INF ELSE Float(RDiv(RNeg(l.c), l.b))

\* Line.is_parallel_to
is_parallel_to(l1, l2) ==
    AbsLtEps(RSub(RMul(l1.a, l2.b), RMul(l1.b, l2.a)))

\* Line.intersection_point with the numerator of y negated
intersection_point_y_sign(l1, l2) ==
    LET d == RSub(RMul(l1.a, l2.b), RMul(l2.a, l1.b))
    IN IF AbsLtEps(d) THEN None
       ELSE LET x == RDiv(RSub(RMul(l1.b, l2.c), RMul(l2.b, l1.c)), d)
                y == RDiv(RSub(RMul(l1.a, l2.c), RMul(l2.a, l1.c)), d)
            IN SomePoint(from_rect(x, y))

\* Line.intersection_point
intersection_point(l1, l2) ==
    LET d == RSub(RMul(l1.a, l2.b), RMul(l2.a, l1.b))
    IN IF AbsLtEps(d) THEN None
       ELSE LET x == RDiv(RSub(RMul(l1.b, l2.c), RMul(l2.b, l1.c)), d)
                y == RDiv(RSub(RMul(l2.a, l1.c), RMul(l1.a, l2.c)), d)
            IN SomePoint(from_rect(x, y))

\* ---------------------------------------------------------- Segment ---
\* Segment.__init__
Segment(p1, p2) == [p1 |-> p1, p2 |-> p2]

\* Segment.norm
Segment_norm(s) == norm(Sub(s.p1, s.p2))

\* Segment.intersects_with testing the intersection point against self only
intersects_with_self_only(self, s, allow_side) ==
    LET l1 == from_segment(self.p1, self.p2)
        l2 == from_segment(s.p1, s.p2)
    IN IF is_parallel_to(l1, l2)
       THEN \/ on_segment(s.p1, self.p1, self.p2, allow_side)
            \/ on_segment(s.p2, self.p1, self.p2, allow_side)
            \/ on_segment(self.p1, s.p1, s.p2, allow_side)
            \/ on_segment(self.p2, s.p1, s.p2, allow_side)
       ELSE on_segment(intersection_point(l1, l2), self.p1, self.p2,
                       allow_side)

\* Segment.intersects_with
intersects_with(self, s, allow_side) ==
    LET l1 == from_segment(self.p1, self.p2)
        l2 == from_segment(s.p1, s.p2)
    IN IF is_parallel_to(l1, l2)
       THEN \/ on_segment(s.p1, self.p1, self.p2, allow_side)
            \/ on_segment(s.p2, self.p1, self.p2, allow_side)
            \/ on_segment(self.p1, s.p1, s.p2, allow_side)
            \/ on_segment(self.p2, s.p1, s.p2, allow_side)
       ELSE LET p == intersection_point(l1, l2)
            IN /\ on_segment(p, self.p1, self.p2, allow_side)
               /\ on_segment(p, s.p1, s.p2, allow_side)

\* Point.from_polar(r, v.phase()): the point at distance r in the direction
\* of v, v # 0
from_polar(r, v) ==
    LET k == RDiv(r, norm(v))
    IN [x |-> v.x * k.n, y |-> v.y * k.n, w |-> v.w * k.d]

\* Segment.closest_point; float / 0.0 raises ZeroDivisionError
closest_point(self, p) ==
    LET n == Segment_norm(self)
    IN IF n.n = 0 THEN ZeroDivisionError
       ELSE LET d == RDiv(dot(Sub(p, self.p1), Sub(self.p2, self.p1)), n)
            IN IF LtEps(d) THEN SomePoint(self.p1)
               ELSE IF GtNegEps(RSub(d, n)) THEN SomePoint(self.p2)
               ELSE SomePoint(Add(from_polar(d, Sub(self.p2, self.p1)),
                                  self.p1))

\* Segment.dist
Segment_dist(self, p) ==
    LET q == closest_point(self, p)
    IN IF q.kind = "ZeroDivisionError" THEN ZeroDivisionError
       ELSE Float(norm(Sub(p, q)))

\* min of floats over the common denominator NormScale
FMin(f, g) == IF g.n < f.n THEN g ELSE f

\* Segment.dist_segment; the arguments of min are evaluated left to right
dist_segment(self, s) ==
    IF intersects_with(self, s, TRUE) THEN Float(RInt(0))
    ELSE LET d1 == Segment_dist(self, s.p1)
             d3 == Segment_dist(s, self.p1)
         IN IF d1.kind = "ZeroDivisionError" THEN ZeroDivisionError
            ELSE IF d3.kind = "ZeroDivisionError" THEN ZeroDivisionError
            ELSE FMin(FMin(d1, Segment_dist(self, s.p2)),
                      FMin(d3, Segment_dist(s, self.p2)))

\* ---------------------------------------------------------- Polygon ---
\* points[i:] and points[:i] of a Python list, as sequences
SliceFrom(points, i) == SubSeq(points, i + 1, Len(points))
SliceTo(points, i) == SubSeq(points, 1, Min(i, Len(points)))

\* zip of two and of three lists
Zip2(s, t) == [i \in 1..Min(Len(s), Len(t)) |-> <<s[i], t[i]>>]
Zip3(s, t, u) ==
    [i \in 1..Min(Len(s), Min(Len(t), Len(u))) |-> <<s[i], t[i], u[i]>>]

\* Polygon.iter2
iter2(points) == Zip2(points, SliceFrom(points, 1) \o SliceTo(points, 1))

\* Polygon.iter3 dropping the triples that wrap around the end of the list
iter3_no_wrap(points) ==
    Zip3(points, SliceFrom(points, 1), SliceFrom(points, 2))

\* Polygon.iter3
iter3(points) ==
    Zip3(points,
         SliceFrom(points, 1) \o SliceTo(points, 1),
         SliceFrom(points, 2) \o SliceTo(points, 2))

\* Polygon.is_convex
is_convex(points, allow_straight, allow_collapsed) ==
    LET t == iter3(points)
        s == {ccw(t[i][1], t[i][2], t[i][3]) : i \in 1..Len(t)}
    IN IF Cardinality(s) = 1
          /\ (s = {CCW_CLOCKWISE} \/ s = {CCW_COUNTER_CLOCKWISE})
       THEN TRUE
       ELSE IF allow_straight /\ Cardinality(s) = 2
               /\ (\/ s = {CCW_ONLINE_FRONT, CCW_CLOCKWISE}
                   \/ s = {CCW_ONLINE_FRONT, CCW_COUNTER_CLOCKWISE})
       THEN TRUE
       ELSE IF allow_collapsed /\ Cardinality(s) = 3
       THEN s = {CCW_ONLINE_FRONT, CCW_ONLINE_BACK, CCW_ON_SEGMENT}
       ELSE FALSE

\* Polygon.has_point_on_edge
has_point_on_edge(points, p) ==
    LET e == iter2(points)
    IN \E i \in 1..Len(e) : ccw(e[i][1], e[i][2], p) = CCW_ON_SEGMENT

\* math.fsum of a list of angles
RECURSIVE fsum(_)
fsum(angles) ==
    IF angles = <<>> THEN 0 ELSE Head(angles) + fsum(Tail(angles))

\* the loop of Polygon.contains that tests for ON_SEGMENT only on the
\* first edge
RECURSIVE contains_loop_first_edge(_, _, _, _, _)
contains_loop_first_edge(e, i, angles, p, allow_on_edge) ==
    IF i > Len(e) THEN GtEps(R(Abs(fsum(angles)), EPS_DEN))
    ELSE IF i = 1 /\ ccw(e[i][1], e[i][2], p) = CCW_ON_SEGMENT
    THEN allow_on_edge
    ELSE contains_loop_first_edge(e, i + 1,
             Append(angles, angle(p, e[i][1], e[i][2])), p, allow_on_edge)

\* the loop of Polygon.contains with the angle normalized into [0, TAU)
RECURSIVE contains_loop_unsigned(_, _, _, _, _)
contains_loop_unsigned(e, i, angles, p, allow_on_edge) ==
    IF i > Len(e) THEN GtEps(R(Abs(fsum(angles)), EPS_DEN))
    ELSE IF ccw(e[i][1], e[i][2], p) = CCW_ON_SEGMENT THEN allow_on_edge
    ELSE contains_loop_unsigned(e, i + 1,
             Append(angles, angle(p, e[i][1], e[i][2]) % TAU),
             p, allow_on_edge)

\* the loop of Polygon.contains from the i-th cyclic edge on, angles being
\* the list accumulated so far
RECURSIVE contains_loop(_, _, _, _, _)
contains_loop(e, i, angles, p, allow_on_edge) ==
    IF i > Len(e) THEN GtEps(R(Abs(fsum(angles)), EPS_DEN))
    ELSE IF ccw(e[i][1], e[i][2], p) = CCW_ON_SEGMENT THEN allow_on_edge
    ELSE contains_loop(e, i + 1,
             Append(angles, angle(p, e[i][1], e[i][2])), p, allow_on_edge)

\* Polygon.contains
contains(points, p, allow_on_edge) ==
    contains_loop(iter2(points), 1, <<>>, p, allow_on_edge)

\* ------------------------------------------------------------- list ---
\* the key functions passed to argsort; "None" is key omitted
Keys == {"None", "neg", "mod2", "const"}

KeyOf(key, a) ==
    CASE key = "neg" -> -a
      [] key = "mod2" -> a % 2
      [] key = "const" -> 0

\* t < u for the items (a, i) that argsort sorts: on key(t[0]), or on the
\* tuples themselves when key is None
ItemLt(t, u, key) ==
    IF key = "None" THEN t[1] < u[1] \/ (t[1] = u[1] /\ t[2] < u[2])
    ELSE KeyOf(key, t[1]) < KeyOf(key, u[1])

Reverse(s) == [i \in 1..Len(s) |-> s[Len(s) + 1 - i]]

\* s with t inserted behind the last item that is not greater than t
RECURSIVE Insert(_, _, _)
Insert(s, t, key) ==
    IF s = <<>> THEN <<t>>
    ELSE IF ItemLt(t, s[Len(s)], key)
         THEN Append(Insert(SubSeq(s, 1, Len(s) - 1), t, key), s[Len(s)])
         ELSE Append(s, t)

\* a stable ascending sort
RECURSIVE StableSort(_, _)
StableSort(s, key) ==
    IF s = <<>> THEN <<>>
    ELSE Insert(StableSort(SubSeq(s, 1, Len(s) - 1), key), s[Len(s)], key)

\* sorted(s, key=..., reverse=...): with reverse the list is reversed,
\* sorted and reversed again, which keeps equal items in their order
sorted(s, key, reverse) ==
    IF reverse THEN Reverse(StableSort(Reverse(s), key))
    ELSE StableSort(s, key)

\* argsort; indices are 0-based
argsort(li, key, reverse) ==
    LET items == [i \in 1..Len(li) |-> <<li[i], i - 1>>]
        res == sorted(items, key, reverse)
    IN [i \in 1..Len(res) |-> res[i][2]]

\* ------------------------------------------------ specification: ccw ---
\* the points (x, y) with integer coordinates in 0..mx and 0..my
GridXY(mx, my) == {from_rect(RInt(x), RInt(y)) : x \in 0..mx, y \in 0..my}
Grid(m) == GridXY(m, m)

CcwGrid == Grid(CcwMax)

InitCcw ==
    /\ op = "init"
    /\ arg \in [a : CcwGrid, b : CcwGrid, c : CcwGrid]
    /\ ret = NoRet

\* Point.ccw(a, b, c)
CallCcw ==
    /\ op = "init"
    /\ op' = "ccw"
    /\ ret' = ccw(arg.a, arg.b, arg.c)
    /\ UNCHANGED arg

NextCcw == CallCcw

SpecCcw == InitCcw /\ [][NextCcw]_vars

\* the position of c relative to the directed segment a -> b, from the
\* coordinates alone: InBox(p, q, r) says r lies in the bounding box of p, q
Cross(a, b, c) == (b.x - a.x) * (c.y - a.y) - (b.y - a.y) * (c.x - a.x)

InBox(p, q, r) ==
    /\ Min(p.x, q.x) <= r.x /\ r.x <= Max(p.x, q.x)
    /\ Min(p.y, q.y) <= r.y /\ r.y <= Max(p.y, q.y)

RefCcw(a, b, c) ==
    IF Cross(a, b, c) > 0 THEN "left"
    ELSE IF Cross(a, b, c) < 0 THEN "right"
    ELSE IF InBox(a, b, c) THEN "between"
    ELSE IF InBox(a, c, b) THEN "beyond"
    ELSE "behind"

RefClass(k) ==
    CASE k = "left" -> CCW_COUNTER_CLOCKWISE
      [] k = "right" -> CCW_CLOCKWISE
      [] k = "behind" -> CCW_ONLINE_BACK
      [] k = "beyond" -> CCW_ONLINE_FRONT
      [] k = "between" -> CCW_ON_SEGMENT

\* C1: for all grid points a, b, c, Point.ccw(a, b, c) is the class of the
\* geometric position of c: left of ab, right of ab, collinear behind a,
\* collinear beyond b, or collinear between a and b inclusive.
C1_CcwIsReference ==
    op = "ccw" => ret = RefClass(RefCcw(arg.a, arg.b, arg.c))

\* a call that classified a collinear point lying beyond b
C1_Witness ==
    /\ op = "ccw"
    /\ arg.a # arg.b
    /\ ret = CCW_ONLINE_FRONT
    /\ RefCcw(arg.a, arg.b, arg.c) = "beyond"

\* C10: for a # b, reversing the reference segment negates the class:
\* Point.ccw(b, a, c) = -Point.ccw(a, b, c).
C10_ReverseNegates ==
    (op = "ccw" /\ ~PEq(arg.a, arg.b)) => ccw(arg.b, arg.a, arg.c) = -ret

\* a call with a # b that classified c as lying behind a
C10_Witness ==
    /\ op = "ccw"
    /\ ~PEq(arg.a, arg.b)
    /\ ret = CCW_ONLINE_BACK
    /\ ccw(arg.b, arg.a, arg.c) = CCW_ONLINE_FRONT

\* ------------------------------------ specification: intersects_with ---
IntGrid == Grid(IntMax)
IntSegments == {Segment(p1, p2) : p1 \in IntGrid, p2 \in IntGrid}

InitIntersect ==
    /\ op = "init"
    /\ arg \in [self : IntSegments, s : IntSegments, allow_side : BOOLEAN]
    /\ ret = NoRet

\* self.intersects_with(s, allow_side)
CallIntersectsWith ==
    /\ op = "init"
    /\ op' = "intersects_with"
    /\ ret' = intersects_with(arg.self, arg.s, arg.allow_side)
    /\ UNCHANGED arg

NextIntersect == CallIntersectsWith

SpecIntersect == InitIntersect /\ [][NextIntersect]_vars

\* C2: segment intersection is symmetric, for degenerate, parallel and
\* collinear pairs too and for either value of allow_side:
\* s1.intersects_with(s2, allow_side) = s2.intersects_with(s1, allow_side).
C2_IntersectsSymmetric ==
    op = "intersects_with" =>
        ret = intersects_with(arg.s, arg.self, arg.allow_side)

\* a proper crossing of two segments that are not parallel
C2_Witness ==
    /\ op = "intersects_with"
    /\ ret = TRUE
    /\ ~arg.allow_side
    /\ ~is_parallel_to(from_segment(arg.self.p1, arg.self.p2),
                       from_segment(arg.s.p1, arg.s.p2))

\* ------------------------------- specification: distance to a segment ---
DistGrid == Grid(DistMax)
DistSegments == {Segment(p1, p2) : p1 \in DistGrid, p2 \in DistGrid}

InitDist ==
    /\ op = "init"
    /\ \/ arg \in [self : DistSegments, p : DistGrid]
       \/ arg \in [self : DistSegments, s : DistSegments]
    /\ ret = NoRet

\* self.closest_point(p)
CallClosestPoint ==
    /\ op = "init"
    /\ "p" \in DOMAIN arg
    /\ op' = "closest_point"
    /\ ret' = closest_point(arg.self, arg.p)
    /\ UNCHANGED arg

\* self.dist(p)
CallDist ==
    /\ op = "init"
    /\ "p" \in DOMAIN arg
    /\ op' = "dist"
    /\ ret' = Segment_dist(arg.self, arg.p)
    /\ UNCHANGED arg

\* self.dist_segment(s)
CallDistSegment ==
    /\ op = "init"
    /\ "s" \in DOMAIN arg
    /\ op' = "dist_segment"
    /\ ret' = dist_segment(arg.self, arg.s)
    /\ UNCHANGED arg

NextDist == CallClosestPoint \/ CallDist \/ CallDistSegment

SpecDist == InitDist /\ [][NextDist]_vars

\* C7: closest_point, dist and dist_segment never divide by zero: on a
\* degenerate segment closest_point signals a dedicated degeneracy error or
\* returns the coincident single point, and no call ends in a division by
\* zero.
C7_DivisionGuarded ==
    /\ (op = "closest_point" /\ PEq(arg.self.p1, arg.self.p2)) =>
           \/ ret.kind = "DegenerateSegmentError"
           \/ ret = SomePoint(arg.self.p1)
    /\ op \in {"closest_point", "dist", "dist_segment"} =>
           ret.kind # "ZeroDivisionError"

\* ------------------------------- specification: Line.intersection_point ---
\* a line is a * x + b * y + c = 0 with integers a, b, c of
\* -LineMax..LineMax, its normal (a, b) scaled by 1, 1e-4 or 5e-5: the
\* determinant of a pair is an integer times 1, 1e-4, 5e-5, EPS, EPS / 2
\* or EPS / 4
LineScales == {RInt(1), R(1, 10000), R(1, 20000)}

LineMults == {RMul(s, RInt(k)) : s \in LineScales, k \in -LineMax..LineMax}

Lines ==
    {Line(RMul(s, RInt(a)), RMul(s, RInt(b)), RInt(c)) :
         s \in LineScales, a \in -LineMax..LineMax,
         b \in -LineMax..LineMax, c \in -LineMax..LineMax}

InitLine ==
    /\ op = "init"
    /\ arg \in [self : Lines, l : Lines]
    /\ ret = NoRet

\* self.intersection_point(l)
CallIntersectionPoint ==
    /\ op = "init"
    /\ op' = "intersection_point"
    /\ ret' = intersection_point(arg.self, arg.l)
    /\ UNCHANGED arg

NextLine == CallIntersectionPoint

SpecLine == InitLine /\ [][NextLine]_vars

\* a1 * b2 - a2 * b1
LineDet(l1, l2) == RSub(RMul(l1.a, l2.b), RMul(l2.a, l1.b))

\* a * x + b * y + c = 0
OnLine(l, p) ==
    RIsZero(RAdd(RAdd(RMul(l.a, PX(p)), RMul(l.b, PY(p))), l.c))

\* (a1, b1) and (a2, b2) are proportional: j * (a1, b1) = k * (a2, b2) for
\* some j and k that are not both 0
Proportional(l1, l2) ==
    \E j, k \in LineMults :
        /\ ~(RIsZero(j) /\ RIsZero(k))
        /\ REq(RMul(j, l1.a), RMul(k, l2.a))
        /\ REq(RMul(j, l1.b), RMul(k, l2.b))

\* C3: Line.intersection_point returns None exactly when
\* abs(a1 * b2 - a2 * b1) < EPS, hence for any two lines with proportional
\* (a, b); otherwise it returns a point that satisfies both line equations.
C3_IntersectionPoint ==
    op = "intersection_point" =>
        /\ (ret = None) <=> AbsLtEps(LineDet(arg.self, arg.l))
        /\ Proportional(arg.self, arg.l) => ret = None
        /\ ret # None =>
               /\ ret.kind = "point"
               /\ OnLine(arg.self, ret)
               /\ OnLine(arg.l, ret)

\* two lines whose determinant is exactly EPS intersect in a point
C3_Witness ==
    /\ op = "intersection_point"
    /\ ret # None
    /\ LineDet(arg.self, arg.l) = R(1, EPS_DEN)
    /\ ~RIsZero(arg.self.c)

\* ------------------------- specification: Line.gradient and intercept ---
\* b: the integers, and EPS / 2 and EPS / 4 of either sign
GradCoefs == {RInt(k) : k \in -GradMax..GradMax}

GradLines ==
    {Line(a, b, c) : a \in GradCoefs, c \in GradCoefs,
         b \in GradCoefs \cup {R(1, 2 * EPS_DEN), R(-1, 2 * EPS_DEN),
                                R(1, 4 * EPS_DEN), R(-1, 4 * EPS_DEN)}}

InitGradient ==
    /\ op = "init"
    /\ arg \in [self : GradLines]
    /\ ret = NoRet

\* self.gradient
CallGradient ==
    /\ op = "init"
    /\ op' = "gradient"
    /\ ret' = gradient(arg.self)
    /\ UNCHANGED arg

\* self.intercept
CallIntercept ==
    /\ op = "init"
    /\ op' = "intercept"
    /\ ret' = intercept(arg.self)
    /\ UNCHANGED arg

NextGradient == CallGradient \/ CallIntercept

SpecGradient == InitGradient /\ [][NextGradient]_vars

\* C8: gradient and intercept are +infinity for every b with abs(b) < EPS,
\* and -a / b and -c / b otherwise.
C8_InfiniteWithinEps ==
    /\ op = "gradient" =>
           ret = IF AbsLtEps(arg.self.b) THEN INF
                 ELSE Float(RDiv(RNeg(arg.self.a), arg.self.b))
    /\ op = "intercept" =>
           ret = IF AbsLtEps(arg.self.b) THEN INF
                 ELSE Float(RDiv(RNeg(arg.self.c), arg.self.b))

\* -------------------------------------- specification: is_convex ---
\* the lists of 1..n points of a set
Polygons(grid, n) == UNION {[1..k -> grid] : k \in 1..n}

InitConvex ==
    /\ op = "init"
    /\ arg \in [points : Polygons(Grid(ConvexMax), ConvexVerts),
                allow_straight : BOOLEAN, allow_collapsed : BOOLEAN]
    /\ ret = NoRet

\* Polygon(points).is_convex(allow_straight, allow_collapsed)
CallIsConvex ==
    /\ op = "init"
    /\ op' = "is_convex"
    /\ ret' = is_convex(arg.points, arg.allow_straight, arg.allow_collapsed)
    /\ UNCHANGED arg

NextConvex == CallIsConvex

SpecConvex == InitConvex /\ [][NextConvex]_vars

\* the ccw classes of the triples (v[i], v[i+1], v[i+2]), indices modulo n
CyclicClasses(v) ==
    LET n == Len(v)
    IN {ccw(v[i], v[(i % n) + 1], v[((i + 1) % n) + 1]) : i \in 1..n}

Pt(x, y) == from_rect(RInt(x), RInt(y))

\* C6: without allow_collapsed, is_convex is true iff the classes of all
\* cyclic consecutive triples are all COUNTER_CLOCKWISE or all CLOCKWISE,
\* or, with allow_straight, are exactly ONLINE_FRONT and one of those two;
\* a square is convex, and with default flags the square with one vertex
\* moved inside is not, nor is a quadrilateral with a reflex vertex with
\* any flags.
C6_IsConvex ==
    (op = "is_convex" /\ ~arg.allow_collapsed) =>
        LET s == CyclicClasses(arg.points)
        IN /\ ret = \/ s = {CCW_COUNTER_CLOCKWISE}
                    \/ s = {CCW_CLOCKWISE}
                    \/ /\ arg.allow_straight
                       /\ \/ s = {CCW_ONLINE_FRONT, CCW_CLOCKWISE}
                          \/ s = {CCW_ONLINE_FRONT, CCW_COUNTER_CLOCKWISE}
           /\ arg.points = <<Pt(0, 0), Pt(2, 0), Pt(2, 2), Pt(0, 2)>>
                  => ret = TRUE
           /\ (arg.points = <<Pt(0, 0), Pt(2, 0), Pt(1, 1), Pt(0, 2)>>
                  /\ ~arg.allow_straight) => ret = FALSE
           /\ arg.points = <<Pt(0, 0), Pt(2, 0), Pt(1, 1), Pt(1, 2)>>
                  => ret = FALSE

\* a quadrilateral with a reflex vertex, whose last two triples wrap around
\* the end of the list, is found not convex
C6_Witness ==
    /\ op = "is_convex"
    /\ ~arg.allow_collapsed
    /\ arg.allow_straight
    /\ arg.points = <<Pt(1, 1), Pt(1, 2), Pt(0, 0), Pt(2, 0)>>
    /\ ret = FALSE

\* ----------------------------------------- specification: contains ---
InitContains ==
    /\ op = "init"
    /\ arg \in [points : Polygons(GridXY(PolyMaxX, PolyMaxY), PolyVerts),
                p : GridXY(PolyMaxX, PolyMaxY), allow_on_edge : BOOLEAN]
    /\ ret = NoRet

\* Polygon(points).contains(p, allow_on_edge)
CallContains ==
    /\ op = "init"
    /\ op' = "contains"
    /\ ret' = contains(arg.points, arg.p, arg.allow_on_edge)
    /\ UNCHANGED arg

NextContains == CallContains

SpecContains == InitContains /\ [][NextContains]_vars

\* the cyclic successor of index i in a list of n
Succ(i, n) == (i % n) + 1

\* r lies on the closed segment pq
OnClosedSegment(p, q, r) == Cross(p, q, r) = 0 /\ InBox(p, q, r)

Sign(i) == IF i > 0 THEN 1 ELSE IF i < 0 THEN -1 ELSE 0

\* the closed segments ab and cd have a point in common (a # b, c # d)
SegmentsMeet(a, b, c, d) ==
    IF Cross(a, b, c) = 0 /\ Cross(a, b, d) = 0
    THEN \/ InBox(a, b, c) \/ InBox(a, b, d)
         \/ InBox(c, d, a) \/ InBox(c, d, b)
    ELSE /\ Sign(Cross(a, b, c)) * Sign(Cross(a, b, d)) <= 0
         /\ Sign(Cross(c, d, a)) * Sign(Cross(c, d, b)) <= 0

\* v is a simple polygon: at least three distinct vertices, consecutive
\* edges meet in their common vertex only, other edges do not meet
IsSimple(v) ==
    LET n == Len(v)
    IN /\ n >= 3
       /\ \A i, j \in 1..n : i # j => v[i] # v[j]
       /\ \A i \in 1..n :
              /\ ~OnClosedSegment(v[i], v[Succ(i, n)], v[Succ(Succ(i, n), n)])
              /\ ~OnClosedSegment(v[Succ(i, n)], v[Succ(Succ(i, n), n)], v[i])
       /\ \A i, j \in 1..n :
              (i # j /\ Succ(i, n) # j /\ Succ(j, n) # i) =>
                  ~SegmentsMeet(v[i], v[Succ(i, n)], v[j], v[Succ(j, n)])

\* p lies on an edge of v
OnBoundary(v, p) ==
    \E i \in 1..Len(v) : OnClosedSegment(v[i], v[Succ(i, Len(v))], p)

\* the edge ab crosses the horizontal ray from p to the right
CrossesRay(a, b, p) ==
    /\ (a.y > p.y) # (b.y > p.y)
    /\ IF b.y > a.y THEN Cross(a, b, p) > 0 ELSE Cross(a, b, p) < 0

\* p is strictly inside the simple polygon v: the ray from p crosses an odd
\* number of edges
Inside(v, p) ==
    Cardinality({i \in 1..Len(v) : CrossesRay(v[i], v[Succ(i, Len(v))], p)})
        % 2 = 1

\* the sum of the signed areas of the edges: positive when v runs
\* counter-clockwise
Area2(v) ==
    LET a[i \in 0..Len(v)] ==
            IF i = 0 THEN 0
            ELSE a[i - 1] + v[i].x * v[Succ(i, Len(v))].y
                          - v[i].y * v[Succ(i, Len(v))].x
    IN a[Len(v)]

\* C4: for a simple polygon in either orientation and a point p on none of
\* its edges, contains(p) is true iff p is strictly inside the polygon; a
\* square contains its centre and does not contain a point beyond its
\* corner.
C4_ContainsIsInside ==
    op = "contains" =>
        /\ (IsSimple(arg.points) /\ ~OnBoundary(arg.points, arg.p)) =>
               ret = Inside(arg.points, arg.p)
        /\ (arg.points = <<Pt(0, 0), Pt(2, 0), Pt(2, 2), Pt(0, 2)>>
               /\ arg.p = Pt(1, 1)) => ret = TRUE
        /\ (arg.points = <<Pt(0, 0), Pt(1, 0), Pt(1, 1), Pt(0, 1)>>
               /\ arg.p = Pt(2, 2)) => ret = FALSE

\* a point inside a clockwise quadrilateral
C4_Witness ==
    /\ op = "contains"
    /\ Len(arg.points) = 4
    /\ IsSimple(arg.points)
    /\ Area2(arg.points) < 0
    /\ ~OnBoundary(arg.points, arg.p)
    /\ Inside(arg.points, arg.p)
    /\ ret = TRUE

\* C5: if some cyclic edge classifies p as ON_SEGMENT then
\* contains(p, allow_on_edge) returns allow_on_edge, whichever edge it is.
C5_OnEdgeShortCircuits ==
    (op = "contains" /\ has_point_on_edge(arg.points, arg.p)) =>
        ret = arg.allow_on_edge

\* p is inside the turn of the first edges and lies on the last edge only
C5_Witness ==
    /\ op = "contains"
    /\ Len(arg.points) = 4
    /\ \A i \in 1..3 :
           ccw(arg.points[i], arg.points[i + 1], arg.p)
               = CCW_COUNTER_CLOCKWISE
    /\ ccw(arg.points[4], arg.points[1], arg.p) = CCW_ON_SEGMENT
    /\ ~arg.allow_on_edge
    /\ ret = FALSE

\* ------------------------------------------ specification: argsort ---
Lists == UNION {[1..k -> 0..ValMax] : k \in 0..MaxLen}

InitArgsort ==
    /\ op = "init"
    /\ arg \in [li : Lists, key : Keys, reverse : BOOLEAN]
    /\ ret = NoRet

\* argsort(li, key, reverse)
CallArgsort ==
    /\ op = "init"
    /\ op' = "argsort"
    /\ ret' = argsort(arg.li, arg.key, arg.reverse)
    /\ UNCHANGED arg

NextArgsort == CallArgsort

SpecArgsort == InitArgsort /\ [][NextArgsort]_vars

\* the value the elements are ordered by
SortKey(key, a) == IF key = "None" THEN a ELSE KeyOf(key, a)

\* C9: argsort returns a permutation of the indices 0..len(li)-1 that
\* orders the elements by key, ascending or with reverse descending, and
\* indices of elements with equal keys keep their increasing order, for
\* every combination of key given or omitted and reverse true or false.
C9_ArgsortStable ==
    op = "argsort" =>
        LET n == Len(arg.li)
            k(i) == SortKey(arg.key, arg.li[ret[i] + 1])
        IN /\ Len(ret) = n
           /\ {ret[i] : i \in 1..n} = 0..(n - 1)
           /\ \A i, j \in 1..n :
                  i < j => IF arg.reverse THEN k(i) >= k(j) ELSE k(i) <= k(j)
           /\ \A i, j \in 1..n : (i < j /\ k(i) = k(j)) => ret[i] < ret[j]

====
